---- MODULE Spec2Model ----
(***************************************************************************)
(* SB Mini II keyboard controller (src/main.c): USB HID boot-keyboard      *)
(* reports are turned into 7-bit parallel ASCII with a STROBE pulse, plus  *)
(* a RESET pulse on Ctrl+PrintScreen and at power-on.                      *)
(*                                                                         *)
(* Two specifications share the definitions below:                         *)
(*   Spec      the firmware: main()'s start-up steps, then the TinyUSB     *)
(*             host callbacks, one whole callback per step;                *)
(*   SpecConv  hid_to_ascii alone, applied to every (keycode, modifier,    *)
(*             caps_lock) of the uint8_t x uint8_t x bool domain.          *)
(***************************************************************************)
EXTENDS Integers, Sequences, FiniteSets, TLC

VARIABLES
    pc,           \* position of main(): "init_gpio", "pulse_reset", "tusb_init", "tuh_task"
    gpio,         \* output level of every pin the firmware drives
    prev_report,  \* static hid_keyboard_report_t prev_report
    caps_lock,    \* static bool caps_lock
    mounted,      \* TinyUSB: the HID interfaces that are mounted
    armed,        \* TinyUSB: interfaces with a report transfer requested
    io,           \* history: gpio writes of the last step, one segment per loop iteration
    cb,           \* history: the last step and the length of the report it was given
    rx,           \* history: the last report handed to process_kbd_report since a detach
    call          \* SpecConv: arguments and result of one hid_to_ascii call

vars == <<pc, gpio, prev_report, caps_lock, mounted, armed, io, cb, rx, call>>

(***************************************************************************)
(* Bounds of the model                                                     *)
(***************************************************************************)
\* HID interfaces (dev_addr, instance) the host may see at once
NumDev == 2
\* slots of a report that may carry a key code: the first NumUsed - 1 and the last
NumUsed == 2

(***************************************************************************)
(* Program constants                                                       *)
(***************************************************************************)
DATA_PIN_BASE == 0
DATA_PIN_COUNT == 7
STROBE_PIN == 7
RESET_PIN == 8
LED_PIN == 25

\* tusb.h values, at the lines of main.c that use them
KEYBOARD_MODIFIER_LEFTCTRL == 1
KEYBOARD_MODIFIER_LEFTSHIFT == 2
KEYBOARD_MODIFIER_RIGHTCTRL == 16
KEYBOARD_MODIFIER_RIGHTSHIFT == 32
HID_KEY_A == 4
HID_KEY_Z == 29
HID_KEY_CAPS_LOCK == 57
HID_KEY_PRINT_SCREEN == 70
HID_ITF_PROTOCOL_KEYBOARD == 1
\* sizeof(hid_keyboard_report_t): modifier, reserved, keycode[6]
REPORT_SIZE == 8
\* keycode[6]
REPORT_KEYS == 6

Byte == 0..255

\* uint8_t a & b
RECURSIVE BitAnd(_, _)
BitAnd(a, b) ==
    IF a = 0 \/ b = 0 THEN 0
    ELSE (a % 2) * (b % 2) + 2 * BitAnd(a \div 2, b \div 2)

\* uint8_t a | b
BitOr(a, b) == a + b - BitAnd(a, b)

\* (ascii >> i) & 1
RECURSIVE ShiftRight(_, _)
ShiftRight(a, i) == IF i = 0 THEN a ELSE ShiftRight(a \div 2, i - 1)

(***************************************************************************)
(* HID keycode to ASCII lookup tables, indexed by keycode (0x00 - 0x52);   *)
(* element keycode + 1 of the tuple is entry [keycode] of the C array.     *)
(***************************************************************************)
keycode_to_ascii ==
    <<   0,   0,   0,   0,  97,  98,  99, 100, 101, 102, 103, 104, 105, 106, 107, 108,
       109, 110, 111, 112, 113, 114, 115, 116, 117, 118, 119, 120, 121, 122,  49,  50,
        51,  52,  53,  54,  55,  56,  57,  48,  13,  27, 127,   9,  32,  45,  61,  91,
        93,  92,   0,  59,  39,  96,  44,  46,  47,   0,   0,   0,   0,   0,   0,   0,
         0,   0,   0,   0,   0,   0,   0,   0,   0,   0,   0,   0, 127,   0,   0,  21,
         8,  10,  11 >>

keycode_to_ascii_shift ==
    <<   0,   0,   0,   0,  65,  66,  67,  68,  69,  70,  71,  72,  73,  74,  75,  76,
        77,  78,  79,  80,  81,  82,  83,  84,  85,  86,  87,  88,  89,  90,  33,  64,
        35,  36,  37,  94,  38,  42,  40,  41,  13,  27, 127,   9,  32,  95,  43, 123,
       125, 124,   0,  58,  34, 126,  60,  62,  63,   0,   0,   0,   0,   0,   0,   0,
         0,   0,   0,   0,   0,   0,   0,   0,   0,   0,   0,   0, 127,   0,   0,  21,
         8,  10,  11 >>

KEYCODE_TABLE_SIZE == Len(keycode_to_ascii)

(***************************************************************************)
(* Keycode conversion                                                      *)
(***************************************************************************)

\* mutant: caps lock inverts shift for every key
hid_to_ascii_capsall(keycode, modifier, caps) ==
    IF keycode >= KEYCODE_TABLE_SIZE THEN 0
    ELSE
        LET shift0 == BitAnd(modifier, BitOr(KEYBOARD_MODIFIER_LEFTSHIFT,
                                             KEYBOARD_MODIFIER_RIGHTSHIFT)) # 0
            ctrl == BitAnd(modifier, BitOr(KEYBOARD_MODIFIER_LEFTCTRL,
                                           KEYBOARD_MODIFIER_RIGHTCTRL)) # 0
            is_letter == keycode >= HID_KEY_A /\ keycode <= HID_KEY_Z
            shift == IF caps THEN ~shift0 ELSE shift0
            ascii == IF shift THEN keycode_to_ascii_shift[keycode + 1]
                              ELSE keycode_to_ascii[keycode + 1]
        IN  IF ctrl /\ is_letter THEN ((keycode - HID_KEY_A) + 1) % 256 ELSE ascii

\* mutant: only the left control bit counts
hid_to_ascii_leftctrl(keycode, modifier, caps) ==
    IF keycode >= KEYCODE_TABLE_SIZE THEN 0
    ELSE
        LET shift0 == BitAnd(modifier, BitOr(KEYBOARD_MODIFIER_LEFTSHIFT,
                                             KEYBOARD_MODIFIER_RIGHTSHIFT)) # 0
            ctrl == BitAnd(modifier, KEYBOARD_MODIFIER_LEFTCTRL) # 0
            is_letter == keycode >= HID_KEY_A /\ keycode <= HID_KEY_Z
            shift == IF caps /\ is_letter THEN ~shift0 ELSE shift0
            ascii == IF shift THEN keycode_to_ascii_shift[keycode + 1]
                              ELSE keycode_to_ascii[keycode + 1]
        IN  IF ctrl /\ is_letter THEN ((keycode - HID_KEY_A) + 1) % 256 ELSE ascii

\* mutant: the range check is off by one
hid_to_ascii_sizeoff(keycode, modifier, caps) ==
    IF keycode >= KEYCODE_TABLE_SIZE - 1 THEN 0
    ELSE
        LET shift0 == BitAnd(modifier, BitOr(KEYBOARD_MODIFIER_LEFTSHIFT,
                                             KEYBOARD_MODIFIER_RIGHTSHIFT)) # 0
            ctrl == BitAnd(modifier, BitOr(KEYBOARD_MODIFIER_LEFTCTRL,
                                           KEYBOARD_MODIFIER_RIGHTCTRL)) # 0
            is_letter == keycode >= HID_KEY_A /\ keycode <= HID_KEY_Z
            shift == IF caps /\ is_letter THEN ~shift0 ELSE shift0
            ascii == IF shift THEN keycode_to_ascii_shift[keycode + 1]
                              ELSE keycode_to_ascii[keycode + 1]
        IN  IF ctrl /\ is_letter THEN ((keycode - HID_KEY_A) + 1) % 256 ELSE ascii

\* the caps_lock global is passed in: process_kbd_report calls this after its
\* own caps-lock loop has run
hid_to_ascii(keycode, modifier, caps) ==
    IF keycode >= KEYCODE_TABLE_SIZE THEN 0
    ELSE
        LET shift0 == BitAnd(modifier, BitOr(KEYBOARD_MODIFIER_LEFTSHIFT,
                                             KEYBOARD_MODIFIER_RIGHTSHIFT)) # 0
            ctrl == BitAnd(modifier, BitOr(KEYBOARD_MODIFIER_LEFTCTRL,
                                           KEYBOARD_MODIFIER_RIGHTCTRL)) # 0
            is_letter == keycode >= HID_KEY_A /\ keycode <= HID_KEY_Z
            shift == IF caps /\ is_letter THEN ~shift0 ELSE shift0
            ascii == IF shift THEN keycode_to_ascii_shift[keycode + 1]
                              ELSE keycode_to_ascii[keycode + 1]
        IN  IF ctrl /\ is_letter THEN ((keycode - HID_KEY_A) + 1) % 256 ELSE ascii

(***************************************************************************)
(* GPIO: a write is <<pin, level>>; a function returns the writes it makes *)
(***************************************************************************)
Pins == (DATA_PIN_BASE .. DATA_PIN_BASE + DATA_PIN_COUNT - 1)
            \cup {STROBE_PIN, RESET_PIN, LED_PIN}

\* level of a pin that gpio_init / gpio_set_dir have not yet made an output
HighZ == -1

gpio_put(pin, value) == <<pin, value>>

RECURSIVE ApplyWrites(_, _)
ApplyWrites(g, ws) ==
    IF ws = <<>> THEN g
    ELSE ApplyWrites([g EXCEPT ![Head(ws)[1]] = Head(ws)[2]], Tail(ws))

RECURSIVE Flatten(_)
Flatten(segs) == IF segs = <<>> THEN <<>> ELSE Head(segs) \o Flatten(Tail(segs))

init_gpio ==
    [i \in 1..DATA_PIN_COUNT |-> gpio_put(DATA_PIN_BASE + (i - 1), 0)]
        \o << gpio_put(STROBE_PIN, 0), gpio_put(RESET_PIN, 0), gpio_put(LED_PIN, 0) >>

\* mutant: the pulse returns without lowering the line
pulse_strobe_nofall == << gpio_put(STROBE_PIN, 1) >>

\* sleep_us(STROBE_DURATION_US) between the two writes changes no state
pulse_strobe == << gpio_put(STROBE_PIN, 1), gpio_put(STROBE_PIN, 0) >>

\* mutant: the pulse has the polarity of the file header (active low)
pulse_reset_activelow == << gpio_put(RESET_PIN, 0), gpio_put(RESET_PIN, 1) >>

\* sleep_ms(RESET_DURATION_MS) between the two writes changes no state
pulse_reset == << gpio_put(RESET_PIN, 1), gpio_put(RESET_PIN, 0) >>

\* mutant: the strobe is pulsed before the data lines are set
output_key_strobefirst(ascii) ==
    pulse_strobe
        \o [i \in 1..DATA_PIN_COUNT |->
               gpio_put(DATA_PIN_BASE + (i - 1), ShiftRight(ascii, i - 1) % 2)]

output_key(ascii) ==
    [i \in 1..DATA_PIN_COUNT |->
        gpio_put(DATA_PIN_BASE + (i - 1), ShiftRight(ascii, i - 1) % 2)]
        \o pulse_strobe

(***************************************************************************)
(* HID report processing                                                   *)
(***************************************************************************)
ZeroReport ==
    [modifier |-> 0, reserved |-> 0, keycode |-> [i \in 1..REPORT_KEYS |-> 0]]

\* (hid_keyboard_report_t const *)report: the first 8 bytes of the buffer
hid_keyboard_report(buf) ==
    [modifier |-> buf[1], reserved |-> buf[2],
     keycode |-> [i \in 1..REPORT_KEYS |-> buf[2 + i]]]

\* mutant: the loop stops one slot short
is_new_key_short(keycode, prev) ==
    \A i \in 1..REPORT_KEYS - 1 : prev.keycode[i] # keycode

is_new_key(keycode, prev) ==
    \A i \in 1..REPORT_KEYS : prev.keycode[i] # keycode

\* mutant: caps lock toggles while the key is down, not on its press
RECURSIVE caps_loop_level(_, _, _, _)
caps_loop_level(report, prev, caps, i) ==
    IF i > REPORT_KEYS THEN caps
    ELSE caps_loop_level(report, prev,
                         IF report.keycode[i] = HID_KEY_CAPS_LOCK
                         THEN ~caps ELSE caps,
                         i + 1)

\* mutant: the loop leaves at the first toggle
caps_loop_once(report, prev, caps, i) ==
    IF (\E j \in i..REPORT_KEYS : report.keycode[j] = HID_KEY_CAPS_LOCK)
            /\ is_new_key(HID_KEY_CAPS_LOCK, prev)
    THEN ~caps ELSE caps

\* first loop of process_kbd_report, from slot i on: the caps_lock it leaves
RECURSIVE caps_loop(_, _, _, _)
caps_loop(report, prev, caps, i) ==
    IF i > REPORT_KEYS THEN caps
    ELSE caps_loop(report, prev,
                   IF report.keycode[i] = HID_KEY_CAPS_LOCK
                        /\ is_new_key(HID_KEY_CAPS_LOCK, prev)
                   THEN ~caps ELSE caps,
                   i + 1)

\* mutant: a key is new when the same slot of the previous report differs
key_loop_body_bypos(report, prev, caps, i) ==
    LET keycode == report.keycode[i] IN
    IF keycode = 0 THEN <<>>
    ELSE IF prev.keycode[i] = keycode THEN <<>>
    ELSE IF keycode = HID_KEY_PRINT_SCREEN
             /\ BitAnd(report.modifier, BitOr(KEYBOARD_MODIFIER_LEFTCTRL,
                                              KEYBOARD_MODIFIER_RIGHTCTRL)) # 0
         THEN pulse_reset
    ELSE LET ascii == hid_to_ascii(keycode, report.modifier, caps) IN
         IF ascii # 0 THEN output_key(ascii) ELSE <<>>

\* mutant: the reset combination looks at the left control bit only
key_loop_body_leftctrl(report, prev, caps, i) ==
    LET keycode == report.keycode[i] IN
    IF keycode = 0 THEN <<>>
    ELSE IF ~is_new_key(keycode, prev) THEN <<>>
    ELSE IF keycode = HID_KEY_PRINT_SCREEN
             /\ BitAnd(report.modifier, KEYBOARD_MODIFIER_LEFTCTRL) # 0
         THEN pulse_reset
    ELSE LET ascii == hid_to_ascii(keycode, report.modifier, caps) IN
         IF ascii # 0 THEN output_key(ascii) ELSE <<>>

\* mutant: the character is put out without the test for 0
key_loop_body_nocheck(report, prev, caps, i) ==
    LET keycode == report.keycode[i] IN
    IF keycode = 0 THEN <<>>
    ELSE IF ~is_new_key(keycode, prev) THEN <<>>
    ELSE IF keycode = HID_KEY_PRINT_SCREEN
             /\ BitAnd(report.modifier, BitOr(KEYBOARD_MODIFIER_LEFTCTRL,
                                              KEYBOARD_MODIFIER_RIGHTCTRL)) # 0
         THEN pulse_reset
    ELSE output_key(hid_to_ascii(keycode, report.modifier, caps))

\* one iteration of the second loop of process_kbd_report: the writes of slot i
key_loop_body(report, prev, caps, i) ==
    LET keycode == report.keycode[i] IN
    IF keycode = 0 THEN <<>>
    ELSE IF ~is_new_key(keycode, prev) THEN <<>>
    ELSE IF keycode = HID_KEY_PRINT_SCREEN
             /\ BitAnd(report.modifier, BitOr(KEYBOARD_MODIFIER_LEFTCTRL,
                                              KEYBOARD_MODIFIER_RIGHTCTRL)) # 0
         THEN pulse_reset
    ELSE LET ascii == hid_to_ascii(keycode, report.modifier, caps) IN
         IF ascii # 0 THEN output_key(ascii) ELSE <<>>

\* mutant: the snapshot is replaced only when the report made an output or
\* toggled caps lock
process_kbd_report_onoutput(report) ==
    LET caps == caps_loop(report, prev_report, caps_lock, 1)
        segs == [i \in 1..REPORT_KEYS |->
                    key_loop_body(report, prev_report, caps, i)]
    IN  /\ caps_lock' = caps
        /\ io' = segs
        /\ gpio' = ApplyWrites(gpio, Flatten(segs))
        /\ prev_report' = IF Flatten(segs) # <<>> \/ caps # caps_lock
                          THEN report ELSE prev_report

\* mutant: the key loop runs before the caps-lock loop
process_kbd_report_capslast(report) ==
    LET caps == caps_loop(report, prev_report, caps_lock, 1)
        segs == [i \in 1..REPORT_KEYS |->
                    key_loop_body(report, prev_report, caps_lock, i)]
    IN  /\ caps_lock' = caps
        /\ io' = segs
        /\ gpio' = ApplyWrites(gpio, Flatten(segs))
        /\ prev_report' = report

process_kbd_report(report) ==
    LET caps == caps_loop(report, prev_report, caps_lock, 1)
        segs == [i \in 1..REPORT_KEYS |->
                    key_loop_body(report, prev_report, caps, i)]
    IN  /\ caps_lock' = caps
        /\ io' = segs
        /\ gpio' = ApplyWrites(gpio, Flatten(segs))
        /\ prev_report' = report

(***************************************************************************)
(* History: what the last step did                                         *)
(***************************************************************************)
NoCall == [keycode |-> 0, modifier |-> 0, ret |-> -1]

StrobesIn(seg) == Cardinality({j \in DOMAIN seg : seg[j] = <<STROBE_PIN, 1>>})
ResetsIn(seg) == Cardinality({j \in DOMAIN seg : seg[j] = <<RESET_PIN, 1>>})

RECURSIVE SumOver(_, _)
SumOver(f, S) ==
    IF S = {} THEN 0
    ELSE LET x == CHOOSE y \in S : TRUE IN f[x] + SumOver(f, S \ {x})

SlotsOf(k, report) == {i \in 1..REPORT_KEYS : report.keycode[i] = k}

\* strobe pulses the segments segs made in the slots of report that carry k
StrobesOf(k, report, segs) ==
    SumOver([i \in 1..REPORT_KEYS |-> StrobesIn(segs[i])], SlotsOf(k, report))

\* the character on the data lines after the writes of seg, from level 0
DataOf(seg) ==
    LET g == ApplyWrites([p \in Pins |-> 0], seg)
    IN  SumOver([i \in 0..DATA_PIN_COUNT - 1 |-> g[DATA_PIN_BASE + i] * (2 ^ i)],
                0..DATA_PIN_COUNT - 1)

(***************************************************************************)
(* Inputs                                                                  *)
(***************************************************************************)
Devices == 1..NumDev

\* what is plugged in: odd interfaces are boot keyboards, even ones have
\* another interface protocol
tuh_hid_interface_protocol(d) ==
    IF d % 2 = 1 THEN HID_ITF_PROTOCOL_KEYBOARD ELSE HID_ITF_PROTOCOL_KEYBOARD + 1

\* a letter, caps lock, print screen, and the first code past the tables
Keys == {HID_KEY_A, HID_KEY_CAPS_LOCK, HID_KEY_PRINT_SCREEN, KEYCODE_TABLE_SIZE}
\* no modifier, left control, right control with left shift; SpecConv has them all
Mods == {0, KEYBOARD_MODIFIER_LEFTCTRL,
         BitOr(KEYBOARD_MODIFIER_RIGHTCTRL, KEYBOARD_MODIFIER_LEFTSHIFT)}
UsedSlots == {i \in 1..REPORT_KEYS : i < NumUsed \/ i = REPORT_KEYS}

\* the first 8 bytes of the endpoint buffer a report arrives in; the callback's
\* len says how many of them the transfer wrote, the rest are stale
Bufs ==
    { [j \in 1..REPORT_SIZE |-> IF j = 1 THEN m
                                ELSE IF j - 2 \in UsedSlots THEN ks[j - 2] ELSE 0] :
        m \in Mods, ks \in [UsedSlots -> Keys \cup {0}] }

\* a report callback's arguments: a buffer and the length of the transfer; a
\* transfer one byte short leaves the last byte of the buffer zero
RxInputs ==
    {<<buf, REPORT_SIZE>> : buf \in Bufs}
        \cup {<<buf, REPORT_SIZE - 1>> : buf \in {b \in Bufs : b[REPORT_SIZE] = 0}}

\* history record of a step that is not a report callback
Cb(name) ==
    [name |-> name, len |-> 0, taken |-> FALSE, unseen |-> FALSE,
     repeat |-> FALSE, fresh |-> {}, moved |-> FALSE]

\* key codes of report absent from the report before it
FreshKeys(report, before) ==
    {k \in Keys : SlotsOf(k, report) # {} /\ SlotsOf(k, before) = {}}

\* key code k is in both reports, in different slots
Moved(k, report, before) ==
    /\ SlotsOf(k, report) # {}
    /\ SlotsOf(k, before) # {}
    /\ SlotsOf(k, report) # SlotsOf(k, before)

(***************************************************************************)
(* main() and the TinyUSB host callbacks                                   *)
(***************************************************************************)
Init ==
    /\ pc = "init_gpio"
    /\ gpio = [p \in Pins |-> HighZ]
    /\ prev_report = ZeroReport
    /\ caps_lock = FALSE
    /\ mounted = {}
    /\ armed = {}
    /\ io = <<>>
    /\ cb = Cb("none")
    /\ rx = ZeroReport
    /\ call = NoCall

\* main: stdio_init_all(); init_gpio();
MainInitGpio ==
    /\ pc = "init_gpio"
    /\ pc' = "pulse_reset"
    /\ io' = <<init_gpio>>
    /\ gpio' = ApplyWrites(gpio, init_gpio)
    /\ cb' = Cb("init_gpio")
    /\ UNCHANGED <<prev_report, caps_lock, mounted, armed, rx, call>>

\* mutant: main() goes on to tusb_init() without the power-on pulse
MainPulseReset_skipped ==
    /\ pc = "pulse_reset"
    /\ pc' = "tusb_init"
    /\ io' = <<>>
    /\ cb' = Cb("pulse_reset")
    /\ UNCHANGED <<gpio, prev_report, caps_lock, mounted, armed, rx, call>>

\* main: pulse_reset();
MainPulseReset ==
    /\ pc = "pulse_reset"
    /\ pc' = "tusb_init"
    /\ io' = <<pulse_reset>>
    /\ gpio' = ApplyWrites(gpio, pulse_reset)
    /\ cb' = Cb("pulse_reset")
    /\ UNCHANGED <<prev_report, caps_lock, mounted, armed, rx, call>>

\* main: tusb_init(); from here on tuh_task() runs one callback at a time
MainTusbInit ==
    /\ pc = "tusb_init"
    /\ pc' = "tuh_task"
    /\ io' = <<>>
    /\ cb' = Cb("tusb_init")
    /\ UNCHANGED <<gpio, prev_report, caps_lock, mounted, armed, rx, call>>

\* the transfer request is taken as accepted: a refused one leaves an interface
\* that delivers no report, which every behaviour of a mounted one already allows
tuh_hid_receive_report(d) == armed' = armed \cup {d}

tuh_hid_mount_cb(d) ==
    /\ pc = "tuh_task"
    /\ d \notin mounted
    /\ mounted' = mounted \cup {d}
    /\ IF tuh_hid_interface_protocol(d) = HID_ITF_PROTOCOL_KEYBOARD
       THEN /\ io' = << <<gpio_put(LED_PIN, 1)>> >>
            /\ gpio' = ApplyWrites(gpio, <<gpio_put(LED_PIN, 1)>>)
            /\ tuh_hid_receive_report(d)
       ELSE /\ io' = <<>>
            /\ UNCHANGED <<gpio, armed>>
    /\ cb' = Cb("mount")
    /\ UNCHANGED <<pc, prev_report, caps_lock, rx, call>>

tuh_hid_umount_cb(d) ==
    /\ pc = "tuh_task"
    /\ d \in mounted
    /\ mounted' = mounted \ {d}
    /\ armed' = armed \ {d}
    /\ io' = << <<gpio_put(LED_PIN, 0)>> >>
    /\ gpio' = ApplyWrites(gpio, <<gpio_put(LED_PIN, 0)>>)
    /\ prev_report' = ZeroReport
    /\ cb' = Cb("umount")
    /\ rx' = ZeroReport
    /\ UNCHANGED <<pc, caps_lock, call>>

\* mutant: the length is compared with the size of the key-code array
report_len_ok_keys(len) == len >= REPORT_KEYS

\* len >= sizeof(hid_keyboard_report_t)
report_len_ok(len) == len >= REPORT_SIZE

\* history record of a report callback; taken: process_kbd_report was called
RxCb(report, len, taken) ==
    [name |-> "report", len |-> len, taken |-> taken,
     unseen |-> FreshKeys(report, rx) # {},
     repeat |-> taken /\ report = rx,
     fresh |-> IF taken THEN FreshKeys(report, rx) ELSE {},
     moved |-> taken /\ Moved(HID_KEY_A, report, rx)]

tuh_hid_report_received_cb(d, buf, len) ==
    /\ pc = "tuh_task"
    /\ d \in armed
    /\ IF tuh_hid_interface_protocol(d) = HID_ITF_PROTOCOL_KEYBOARD
            /\ report_len_ok(len)
       THEN /\ process_kbd_report(hid_keyboard_report(buf))
            /\ rx' = hid_keyboard_report(buf)
            /\ cb' = RxCb(hid_keyboard_report(buf), len, TRUE)
       ELSE /\ io' = <<>>
            /\ cb' = RxCb(hid_keyboard_report(buf), len, FALSE)
            /\ UNCHANGED <<gpio, prev_report, caps_lock, rx>>
    /\ tuh_hid_receive_report(d)
    /\ UNCHANGED <<pc, mounted, call>>

Next ==
    \/ MainInitGpio
    \/ MainPulseReset
    \/ MainTusbInit
    \/ \E d \in Devices : tuh_hid_mount_cb(d)
    \/ \E d \in Devices : tuh_hid_umount_cb(d)
    \/ \E d \in Devices, in \in RxInputs :
            tuh_hid_report_received_cb(d, in[1], in[2])

Spec == Init /\ [][Next]_vars

(***************************************************************************)
(* hid_to_ascii alone, over its whole input domain                         *)
(***************************************************************************)
InitConv ==
    /\ pc = "hid_to_ascii"
    /\ gpio = [p \in Pins |-> 0]
    /\ prev_report = ZeroReport
    /\ caps_lock \in BOOLEAN
    /\ mounted = {}
    /\ armed = {}
    /\ io = <<>>
    /\ cb = Cb("none")
    /\ rx = ZeroReport
    /\ call \in [keycode : Byte, modifier : Byte, ret : {-1}]

CallHidToAscii ==
    /\ pc = "hid_to_ascii"
    /\ call.ret = -1
    /\ call' = [call EXCEPT !.ret = hid_to_ascii(call.keycode, call.modifier, caps_lock)]
    /\ UNCHANGED <<pc, gpio, prev_report, caps_lock, mounted, armed, io, cb, rx>>

NextConv == CallHidToAscii

SpecConv == InitConv /\ [][NextConv]_vars

(***************************************************************************)
(* The firmware with two letter keys, for the order within one report      *)
(***************************************************************************)
\* two letters and caps lock
KeysOrder == {HID_KEY_A, HID_KEY_Z, HID_KEY_CAPS_LOCK}
\* no modifier, right shift
ModsOrder == {0, KEYBOARD_MODIFIER_RIGHTSHIFT}

BufsOrder ==
    { [j \in 1..REPORT_SIZE |-> IF j = 1 THEN m
                                ELSE IF j - 2 \in UsedSlots THEN ks[j - 2] ELSE 0] :
        m \in ModsOrder, ks \in [UsedSlots -> KeysOrder \cup {0}] }

RxInputsOrder ==
    {<<buf, REPORT_SIZE>> : buf \in BufsOrder}
        \cup {<<buf, REPORT_SIZE - 1>> : buf \in {b \in BufsOrder : b[REPORT_SIZE] = 0}}

NextOrder ==
    \/ MainInitGpio
    \/ MainPulseReset
    \/ MainTusbInit
    \/ \E d \in Devices : tuh_hid_mount_cb(d)
    \/ \E d \in Devices : tuh_hid_umount_cb(d)
    \/ \E d \in Devices, in \in RxInputsOrder :
            tuh_hid_report_received_cb(d, in[1], in[2])

SpecOrder == Init /\ [][NextOrder]_vars

(***************************************************************************)
(* Properties                                                              *)
(***************************************************************************)
\* the tables hold a character for key code k
HasChar(k) == k < KEYCODE_TABLE_SIZE /\ keycode_to_ascii[k + 1] # 0

\* no strobe pulse and no reset pulse among the writes segs
NoPulse(segs) ==
    \A i \in DOMAIN segs : StrobesIn(segs[i]) = 0 /\ ResetsIn(segs[i]) = 0

Odd(n) == n % 2 = 1

\* C1: after a detach notification the previous snapshot is empty (six slots
\* and the modifier byte zero) and the caps-lock state is false.
C1_DetachClearsState ==
    cb.name = "umount" =>
        /\ \A i \in 1..REPORT_KEYS : prev_report.keycode[i] = 0
        /\ prev_report.modifier = 0
        /\ caps_lock = FALSE

\* C2 as stated: a snapshot submitted again right after itself produces no
\* strobe pulse, no reset pulse and no caps-lock toggle, and a key with a
\* character that first appears in a snapshot is strobed exactly once.
C2_OneStrobePerSnapshot ==
    [][cb'.taken =>
        /\ cb'.repeat => NoPulse(io') /\ caps_lock' = caps_lock
        /\ \A k \in cb'.fresh : HasChar(k) => StrobesOf(k, rx', io') = 1]_vars

\* C2 amended: a snapshot submitted again right after itself produces no
\* strobe pulse, no reset pulse and no caps-lock toggle, and a key with a
\* character that first appears in a snapshot is strobed once for each slot
\* of the snapshot that carries it.
C2_OneStrobePerSlot ==
    [][cb'.taken =>
        /\ cb'.repeat => NoPulse(io') /\ caps_lock' = caps_lock
        /\ \A k \in cb'.fresh :
              HasChar(k) => StrobesOf(k, rx', io') = Cardinality(SlotsOf(k, rx'))]_vars

\* C2 witness: a snapshot holding the letter key was processed right after
\* an identical one, without a pulse.
C2_Witness ==
    /\ cb.taken /\ cb.repeat
    /\ SlotsOf(HID_KEY_A, rx) # {}
    /\ NoPulse(io)

C4_ToggleOncePerPress ==
    [][IF /\ cb'.taken
          /\ SlotsOf(HID_KEY_CAPS_LOCK, prev_report) = {}
          /\ SlotsOf(HID_KEY_CAPS_LOCK, rx') # {}
       THEN caps_lock' = ~caps_lock
       ELSE caps_lock' = caps_lock]_vars

\* C4 amended: in a report that carries the caps-lock key when the previous
\* snapshot does not, caps lock toggles once for each slot that carries it
\* (once when one slot does); no other step changes it.
C4_ToggleOncePerSlot ==
    [][IF /\ cb'.taken
          /\ SlotsOf(HID_KEY_CAPS_LOCK, prev_report) = {}
          /\ SlotsOf(HID_KEY_CAPS_LOCK, rx') # {}
       THEN caps_lock' = (caps_lock # Odd(Cardinality(SlotsOf(HID_KEY_CAPS_LOCK, rx'))))
       ELSE caps_lock' = caps_lock]_vars

\* C4 witness: caps lock is on and the report just processed repeats one that
\* carries the caps-lock key in one slot: pressed once, held, not toggled again.
C4_Witness ==
    /\ cb.taken /\ cb.repeat
    /\ Cardinality(SlotsOf(HID_KEY_CAPS_LOCK, rx)) = 1
    /\ caps_lock

\* modifier byte m has a shift bit, a control bit; k is a letter key code
RawShift(m) == (m \div 2) % 2 = 1 \/ (m \div 32) % 2 = 1
RawCtrl(m) == m % 2 = 1 \/ (m \div 16) % 2 = 1
IsLetter(k) == k \in HID_KEY_A..HID_KEY_Z
Lookup(k, shifted) ==
    IF shifted THEN keycode_to_ascii_shift[k + 1] ELSE keycode_to_ascii[k + 1]
Returned == pc = "hid_to_ascii" /\ call.ret # -1

\* tusb.h key codes of the arrow keys, as the tables' comments place them
HID_KEY_ARROW_RIGHT == 79
HID_KEY_ARROW_LEFT == 80
HID_KEY_ARROW_DOWN == 81
HID_KEY_ARROW_UP == 82
APPLE_LEFT == 8
APPLE_RIGHT == 21
APPLE_DOWN == 10
APPLE_UP == 11
UPPER_A == 65
LOWER_A == 97

\* C5: for an in-range key code and no control bit, hid_to_ascii returns the
\* table entry for effective shift = raw shift XOR (caps lock AND letter): caps
\* lock alone gives a letter's upper case, caps lock with shift its lower
\* case, and a key that is no letter gets the entry of the shift bits alone.
C5_ShiftXorCaps ==
    Returned /\ call.keycode < KEYCODE_TABLE_SIZE /\ ~RawCtrl(call.modifier) =>
        LET k == call.keycode
            shift == RawShift(call.modifier)
        IN  /\ call.ret = Lookup(k, shift # (caps_lock /\ IsLetter(k)))
            /\ IsLetter(k) /\ caps_lock /\ ~shift => call.ret = UPPER_A + (k - HID_KEY_A)
            /\ IsLetter(k) /\ caps_lock /\ shift => call.ret = LOWER_A + (k - HID_KEY_A)
            /\ ~IsLetter(k) => call.ret = Lookup(k, shift)

\* C5 witness: the key of letter a, no modifier, caps lock on, returned 'A'.
C5_Witness ==
    /\ Returned /\ caps_lock
    /\ call = [keycode |-> HID_KEY_A, modifier |-> 0, ret |-> UPPER_A]

\* C6: for a letter key code with a control bit set, hid_to_ascii returns
\* (keycode - HID_KEY_A) + 1, within 0x01..0x1A, whatever the shift bits and
\* the caps-lock state.
C6_CtrlLetter ==
    Returned /\ IsLetter(call.keycode) /\ RawCtrl(call.modifier) =>
        /\ call.ret = (call.keycode - HID_KEY_A) + 1
        /\ call.ret \in 1..26

\* C6 witness: the key of letter c with right control and left shift, caps
\* lock on, returned 0x03.
C6_Witness ==
    /\ Returned /\ caps_lock
    /\ call = [keycode |-> HID_KEY_A + 2,
               modifier |-> KEYBOARD_MODIFIER_RIGHTCTRL + KEYBOARD_MODIFIER_LEFTSHIFT,
               ret |-> 3]

\* C7: a slot that carries print screen in a report with a control bit set
\* makes one reset pulse and no strobe pulse when print screen is new, after
\* which the later slots are still handled (a new key with a character in one
\* of them is strobed); when print screen was in the report before, the slot
\* makes no reset pulse.
C7_ResetCombo ==
    cb.taken =>
        \A i \in 1..REPORT_KEYS :
            rx.keycode[i] = HID_KEY_PRINT_SCREEN /\ RawCtrl(rx.modifier) =>
                IF HID_KEY_PRINT_SCREEN \in cb.fresh
                THEN /\ ResetsIn(io[i]) = 1
                     /\ StrobesIn(io[i]) = 0
                     /\ \A j \in (i + 1)..REPORT_KEYS :
                            HasChar(rx.keycode[j]) /\ rx.keycode[j] \in cb.fresh
                                => StrobesIn(io[j]) = 1
                ELSE ResetsIn(io[i]) = 0 /\ StrobesIn(io[i]) = 0

\* C7 witness: a report with a control bit brought print screen in the first
\* slot and the letter key in the last, both new: one reset pulse, then the
\* strobe of the letter's control code.
C7_Witness ==
    /\ cb.taken /\ RawCtrl(rx.modifier)
    /\ rx.keycode[1] = HID_KEY_PRINT_SCREEN /\ rx.keycode[REPORT_KEYS] = HID_KEY_A
    /\ {HID_KEY_PRINT_SCREEN, HID_KEY_A} \subseteq cb.fresh
    /\ ResetsIn(io[1]) = 1 /\ StrobesIn(io[REPORT_KEYS]) = 1

\* C8: a slot whose key code is past the tables, or in range without a
\* character, resolves to 0 and makes no strobe pulse; a strobe pulse never
\* goes with character 0 on the data lines; an empty slot makes no write.
C8_NoCharNoStrobe ==
    cb.taken =>
        \A i \in 1..REPORT_KEYS :
            LET k == rx.keycode[i] IN
            /\ ~HasChar(k) =>
                  /\ hid_to_ascii(k, rx.modifier, caps_lock) = 0
                  /\ StrobesIn(io[i]) = 0
            /\ StrobesIn(io[i]) > 0 => DataOf(io[i]) # 0
            /\ k = 0 => io[i] = <<>>

\* C8 witness: a report brought a new key code past the tables and a new
\* in-range one without a character (caps lock), and no pulse was made.
C8_Witness ==
    /\ cb.taken
    /\ {KEYCODE_TABLE_SIZE, HID_KEY_CAPS_LOCK} \subseteq cb.fresh
    /\ NoPulse(io)

\* C9: the left, down, up and right arrow key codes return 0x08, 0x0A, 0x0B
\* and 0x15, for every modifier byte and caps-lock state.
C9_Arrows ==
    Returned =>
        /\ call.keycode = HID_KEY_ARROW_LEFT => call.ret = APPLE_LEFT
        /\ call.keycode = HID_KEY_ARROW_DOWN => call.ret = APPLE_DOWN
        /\ call.keycode = HID_KEY_ARROW_UP => call.ret = APPLE_UP
        /\ call.keycode = HID_KEY_ARROW_RIGHT => call.ret = APPLE_RIGHT

\* C9 witness: the up arrow with both shift bits, caps lock on, returned 0x0B.
C9_Witness ==
    /\ Returned /\ caps_lock
    /\ call = [keycode |-> HID_KEY_ARROW_UP,
               modifier |-> KEYBOARD_MODIFIER_LEFTSHIFT + KEYBOARD_MODIFIER_RIGHTSHIFT,
               ret |-> APPLE_UP]

\* C10: a report callback with fewer than 8 bytes does not call
\* process_kbd_report, writes no pin, and leaves the previous snapshot and
\* the caps-lock state as they were.
C10_ShortReportDropped ==
    [][cb'.name = "report" /\ cb'.len < REPORT_SIZE =>
        /\ ~cb'.taken
        /\ io' = <<>>
        /\ UNCHANGED <<prev_report, caps_lock, gpio, rx>>]_vars

\* C10 witness: a 7-byte report whose buffer carried a key code that the
\* report before did not was dropped.
C10_Witness ==
    /\ cb.name = "report" /\ cb.len < REPORT_SIZE
    /\ cb.unseen /\ ~cb.taken

(***************************************************************************)
(* The pins during a step: the levels after each write the step makes      *)
(***************************************************************************)
\* Levels(g, ws)[j + 1]: the pins after the first j writes of ws, from g
Levels(g, ws) == [j \in 1..Len(ws) + 1 |-> ApplyWrites(g, SubSeq(ws, 1, j - 1))]

DataPins == DATA_PIN_BASE .. DATA_PIN_BASE + DATA_PIN_COUNT - 1

\* the 7-bit value on the data lines at levels g
DataValue(g) ==
    SumOver([i \in 0..DATA_PIN_COUNT - 1 |-> g[DATA_PIN_BASE + i] * (2 ^ i)],
            0..DATA_PIN_COUNT - 1)

\* position of main() in its start-up sequence
Rank(p) ==
    CASE p = "init_gpio" -> 0
      [] p = "pulse_reset" -> 1
      [] p = "tusb_init" -> 2
      [] p = "tuh_task" -> 3

Callbacks == {"mount", "umount", "report"}

\* C11: main() runs init_gpio (every pin driven low), then one reset pulse,
\* then tusb_init, and from then on only callbacks run; a strobe pulse or a
\* call of process_kbd_report happens only after the power-on reset pulse
\* has ended, and the start-up steps never run again.
C11_StartupOrder ==
    [][/\ Rank(pc') \in {Rank(pc), Rank(pc) + 1}
       /\ pc = "init_gpio" =>
              /\ cb'.name = "init_gpio" /\ pc' = "pulse_reset"
              /\ \A p \in Pins : gpio'[p] = 0
       /\ pc = "pulse_reset" =>
              /\ cb'.name = "pulse_reset" /\ pc' = "tusb_init"
              /\ Flatten(io') = <<gpio_put(RESET_PIN, 1), gpio_put(RESET_PIN, 0)>>
              /\ gpio'[RESET_PIN] = 0
       /\ pc = "tusb_init" =>
              /\ cb'.name = "tusb_init" /\ pc' = "tuh_task"
              /\ Flatten(io') = <<>>
       /\ pc = "tuh_task" => cb'.name \in Callbacks /\ pc' = "tuh_task"
       /\ cb'.name \in Callbacks => pc = "tuh_task"
       /\ (cb'.taken \/ StrobesIn(Flatten(io')) > 0) => pc = "tuh_task"]_vars

\* C11 witness: start-up is over and a report was processed that strobed a
\* character.
C11_Witness ==
    /\ pc = "tuh_task"
    /\ cb.taken
    /\ StrobesIn(Flatten(io)) > 0

\* the pins when the loop of process_kbd_report reaches iteration i, the
\* step having started at levels g and made the writes segs
LevelsAt(g, segs, i) == ApplyWrites(g, Flatten(SubSeq(segs, 1, i - 1)))

\* C12: whenever the strobe line rises, data line b holds bit b of the
\* character of the slot being put out (a 7-bit value that is not 0), and no
\* write goes to a data line while the strobe line is high.
C12_DataStableAtStrobe ==
    [][LET ws == Flatten(io')
           lv == Levels(gpio, ws)
       IN  /\ \A j \in 1..Len(ws) :
                  lv[j][STROBE_PIN] = 1 => ws[j][1] \notin DataPins
           /\ StrobesIn(ws) > 0 => cb'.taken
           /\ cb'.taken =>
                  \A i \in 1..REPORT_KEYS :
                      LET seg == io'[i]
                          l == Levels(LevelsAt(gpio, io', i), seg)
                          ch == hid_to_ascii(rx'.keycode[i], rx'.modifier, caps_lock')
                      IN  \A j \in 1..Len(seg) :
                              seg[j] = <<STROBE_PIN, 1>> =>
                                  /\ ch \in 1..127
                                  /\ DataValue(l[j]) = ch
                                  /\ \A b \in 0..DATA_PIN_COUNT - 1 :
                                         l[j][DATA_PIN_BASE + b] = (ch \div (2 ^ b)) % 2]_vars

\* C12 witness: the letter key was put out as 'A' (caps lock on, no shift),
\* and the data lines still hold 'A' with the strobe line low again.
C12_Witness ==
    /\ cb.taken /\ caps_lock
    /\ rx.keycode[1] = HID_KEY_A /\ rx.modifier = 0
    /\ StrobesIn(io[1]) = 1
    /\ StrobesIn(io[REPORT_KEYS]) = 0
    /\ DataValue(gpio) = UPPER_A
    /\ gpio[STROBE_PIN] = 0

\* C13: the strobe line and the reset line are never high together: not in
\* any state, and not after any single write of a step, also in a step that
\* makes a reset pulse and strobe pulses.
C13_PulsesExclusive ==
    [][LET ws == Flatten(io')
           lv == Levels(gpio, ws)
       IN  /\ lv[Len(ws) + 1] = gpio'
           /\ \A j \in 1..Len(ws) + 1 :
                  ~(lv[j][STROBE_PIN] = 1 /\ lv[j][RESET_PIN] = 1)]_vars

\* C13 witness: one report with a control bit brought the letter key in the
\* first slot and print screen in the last: a strobe pulse, then a reset pulse.
C13_Witness ==
    /\ cb.taken
    /\ rx.keycode[1] = HID_KEY_A /\ rx.keycode[REPORT_KEYS] = HID_KEY_PRINT_SCREEN
    /\ StrobesIn(io[1]) = 1 /\ ResetsIn(io[1]) = 0
    /\ ResetsIn(io[REPORT_KEYS]) = 1 /\ StrobesIn(io[REPORT_KEYS]) = 0
    /\ gpio[STROBE_PIN] = 0 /\ gpio[RESET_PIN] = 0

\* writes of level v to pin p among ws
WritesOf(p, v, ws) == Cardinality({j \in DOMAIN ws : ws[j] = <<p, v>>})

\* no pulse is in progress and the previous snapshot is whole: it is the last
\* report processed, or all zero after a detach and at start-up
Quiescent(g, prev, last) ==
    /\ g[STROBE_PIN] = 0
    /\ g[RESET_PIN] = 0
    /\ prev = last

\* C14: a mount, unmount or report callback starts only when no pulse is in
\* progress and the previous snapshot is whole, and it ends that way: every
\* pulse a callback starts it also ends, and the snapshot it leaves is the
\* whole report it processed, before the next callback starts.
C14_CallbacksSerialized ==
    [][cb'.name \in Callbacks =>
          /\ Quiescent(gpio, prev_report, rx)
          /\ Quiescent(gpio', prev_report', rx')
          /\ LET ws == Flatten(io')
             IN  /\ WritesOf(STROBE_PIN, 1, ws) = WritesOf(STROBE_PIN, 0, ws)
                 /\ WritesOf(RESET_PIN, 1, ws) = WritesOf(RESET_PIN, 0, ws)]_vars

\* C14 witness: a report that made a reset pulse was processed right after a
\* report that had strobed the letter key, which it still carries.
C14_Witness ==
    /\ cb.taken /\ cb.moved
    /\ HID_KEY_PRINT_SCREEN \in cb.fresh
    /\ ResetsIn(Flatten(io)) = 1
    /\ Quiescent(gpio, prev_report, rx)

\* a keyboard interface is mounted
KeyboardAttached ==
    \E d \in mounted : tuh_hid_interface_protocol(d) = HID_ITF_PROTOCOL_KEYBOARD

\* C15: once the host runs, the LED is on exactly when at least one keyboard
\* interface is mounted, after any sequence of mount and unmount callbacks.
C15_LedIffKeyboard ==
    pc = "tuh_task" => (gpio[LED_PIN] = 1 <=> KeyboardAttached)

\* C16: the RESET line is active low: once init_gpio has run it is high in
\* every state between steps (no reset pulse is in progress there), and a
\* reset pulse drives it low and then high again.
C16_ResetActiveLow ==
    [][/\ pc' # "init_gpio" => gpio'[RESET_PIN] = 1
       /\ \A i \in DOMAIN io' :
              ResetsIn(io'[i]) + WritesOf(RESET_PIN, 0, io'[i]) > 0 /\ pc # "init_gpio" =>
                  io'[i] = << gpio_put(RESET_PIN, 0), gpio_put(RESET_PIN, 1) >>]_vars

\* C17: after process_kbd_report has handled a report, prev_report equals it
\* in the six key-code slots and in the modifier byte, whether or not the
\* report made a strobe pulse, a reset pulse or a caps-lock toggle.
C17_SnapshotReplaced ==
    [][cb'.taken =>
          /\ \A i \in 1..REPORT_KEYS : prev_report'.keycode[i] = rx'.keycode[i]
          /\ prev_report'.modifier = rx'.modifier]_vars

\* C17 witness: a report that differs from the one before it, with a modifier
\* bit and a held key but no new key, was processed without a pulse and is
\* now the previous snapshot.
C17_Witness ==
    /\ cb.taken /\ ~cb.repeat
    /\ cb.fresh = {}
    /\ NoPulse(io)
    /\ rx.modifier # 0
    /\ SlotsOf(HID_KEY_A, rx) # {}
    /\ prev_report = rx

\* the values on the data lines at each rise of the strobe line, in the order
\* of the writes ws made from levels g
RECURSIVE StrobedChars(_, _)
StrobedChars(g, ws) ==
    IF ws = <<>> THEN <<>>
    ELSE (IF Head(ws) = <<STROBE_PIN, 1>> THEN <<DataValue(g)>> ELSE <<>>)
            \o StrobedChars(ApplyWrites(g, <<Head(ws)>>), Tail(ws))

\* the characters of the new keys of report from slot i on, in increasing
\* slot order, resolved with caps-lock state caps
RECURSIVE NewChars(_, _, _, _)
NewChars(report, prev, caps, i) ==
    IF i > REPORT_KEYS THEN <<>>
    ELSE LET k == report.keycode[i]
             ch == IF ~IsLetter(k) THEN Lookup(k, RawShift(report.modifier))
                   ELSE IF RawCtrl(report.modifier) THEN (k - HID_KEY_A) + 1
                   ELSE Lookup(k, RawShift(report.modifier) # caps)
         IN  (IF k # 0 /\ SlotsOf(k, prev) = {} /\ HasChar(k) THEN <<ch>> ELSE <<>>)
                \o NewChars(report, prev, caps, i + 1)

\* C18: the characters a report strobes are those of its new keys in
\* increasing slot order, each resolved with the caps-lock state the report
\* leaves: a caps-lock key newly pressed in the same report has toggled the
\* state before any slot is translated, whichever slot it is in.
C18_CapsBeforeKeys ==
    [][cb'.taken =>
          /\ StrobedChars(gpio, Flatten(io')) = NewChars(rx', prev_report, caps_lock', 1)
          /\ \A i \in 1..REPORT_KEYS :
                 StrobesIn(io'[i]) > 0 =>
                     StrobedChars(LevelsAt(gpio, io', i), io'[i])
                         = <<hid_to_ascii(rx'.keycode[i], rx'.modifier, caps_lock')>>]_vars

\* C18 witness: a report without modifier brought the letter key a in the
\* first slot and caps lock in the last, both new: caps lock is now on and
\* the letter went out as 'A'.
C18_Witness ==
    /\ cb.taken
    /\ rx.modifier = 0
    /\ rx.keycode[1] = HID_KEY_A /\ rx.keycode[REPORT_KEYS] = HID_KEY_CAPS_LOCK
    /\ {HID_KEY_A, HID_KEY_CAPS_LOCK} \subseteq cb.fresh
    /\ caps_lock
    /\ StrobesIn(io[1]) = 1
    /\ DataValue(gpio) = UPPER_A

\* caps-lock state c after n toggles
RECURSIVE Toggles(_, _)
Toggles(c, n) == IF n = 0 THEN c ELSE Toggles(~c, n - 1)

\* C19 as stated: a report that carries the caps-lock key code, processed when
\* the previous snapshot does not carry it, toggles the caps-lock state once,
\* however many of its slots carry the code.
C19_OneTogglePerReport ==
    [][cb'.taken
          /\ SlotsOf(HID_KEY_CAPS_LOCK, prev_report) = {}
          /\ SlotsOf(HID_KEY_CAPS_LOCK, rx') # {}
       => caps_lock' = Toggles(caps_lock, 1)]_vars

\* C19 amended: a report processed when the previous snapshot does not carry
\* the caps-lock key code toggles the caps-lock state once for each of its
\* slots that carries the code: one slot inverts the state, two slots leave
\* it as it was.
C19_OneTogglePerDuplicate ==
    [][cb'.taken /\ SlotsOf(HID_KEY_CAPS_LOCK, prev_report) = {}
       => caps_lock' = Toggles(caps_lock, Cardinality(SlotsOf(HID_KEY_CAPS_LOCK, rx')))]_vars

\* C19 witness: a report brought the caps-lock key, new, in two slots and
\* caps lock is on: it was on before and was toggled twice.
C19_Witness ==
    /\ cb.taken
    /\ HID_KEY_CAPS_LOCK \in cb.fresh
    /\ Cardinality(SlotsOf(HID_KEY_CAPS_LOCK, rx)) = 2
    /\ caps_lock

\* C20: a mount or unmount callback for an interface that is not a keyboard
\* leaves the previous snapshot, the caps-lock state, the LED and every other
\* output line as they were (a report callback for such an interface never
\* comes: no transfer is requested for it).
C20_NonKeyboardNoEffect ==
    [][\A d \in Devices :
          /\ tuh_hid_interface_protocol(d) # HID_ITF_PROTOCOL_KEYBOARD
          /\ (d \in mounted) # (d \in mounted')
          => UNCHANGED <<prev_report, caps_lock, gpio>>]_vars

====
